---- MODULE Spec2Model ----
(***************************************************************************)
(* Model of spot_price_app.py: the module-level frame df (the cleaned      *)
(* day-ahead price table) and the two Dash callbacks update_plot (through  *)
(* plot_price) and update_table that read it.                              *)
(*                                                                         *)
(* Timestamps are whole minutes counted from 00:00 UTC of the first day of *)
(* the data file; a calendar day is the quotient by MinutesPerDay.         *)
(***************************************************************************)
EXTENDS Integers, Sequences, FiniteSets, TLC

VARIABLES
    df,      \* the module-level DataFrame: a sequence of rows in file order
    called,  \* the callback that ran last: "none", "update_plot", "update_table"
    day,     \* the day argument of that call
    area,    \* the area argument of that call
    raised,  \* TRUE when that call ended with an exception
    subset   \* the frame that call handed to px.line / Table.from_dataframe

vars == <<df, called, day, area, raised, subset>>

---------------------------------------------------------------------------
(* Bounds of the model *)

MaxRows == 2      \* rows of an arbitrary data file
LastDay == 1      \* the data file covers the days 0..LastDay

---------------------------------------------------------------------------
(* Values *)

MinutesPerDay == 1440
Freq == 15
Pad == 59

\* The date a cleared DatePickerSingle hands to the callbacks (None): it is
\* equal to the Day of no row.
NoDay == -1

\* The bidding zones kept by the cleaning step (two of NO1..NO5).
Areas == {"NO1", "NO2"}

\* Cell values of a column: a float, a missing value, a string.  A string
\* produced by strftime('%H:%M') is held as its two fields <<HH, MM>>.
Float(p) == [kind |-> "float", val |-> <<p>>]
NaN == [kind |-> "nan", val |-> <<>>]
Str(s) == [kind |-> "str", val |-> s]

isna(c) == c.kind = "nan"

\* df['DateTime'].dt.date.astype(str): the calendar date of a timestamp.
DayColumn(t) == t \div MinutesPerDay

\* dt.strftime('%H:%M')
strftime(t) == <<(t % MinutesPerDay) \div 60, t % 60>>

\* One row of df after the cleaning cell (DateTime, MapCode, Price, Day).
Row(t, m, p) == [DateTime |-> t, MapCode |-> m, Price |-> p, Day |-> DayColumn(t)]

---------------------------------------------------------------------------
(* The data files the model loads *)

PriceChoices == {Float(1), Float(2), NaN}

\* 00:00, 00:20 and 23:45 of day 0, and 00:00 of every later day.
TimeChoices == {0, 20, 1425} \cup {d * MinutesPerDay : d \in 1..LastDay}

RowChoices == {Row(t, m, p) : t \in TimeChoices, m \in Areas, p \in PriceChoices}

SmallDatasets == UNION {[1..n -> RowChoices] : n \in 0..MaxRows}

Resolutions == {15, 30, 60}

\* A complete day d of area m at resolution res, with prices 1, 2, 3, ...
FullDay(res, d, m) ==
    [k \in 1..(MinutesPerDay \div res) |->
        Row(d * MinutesPerDay + (k - 1) * res, m, Float(k))]

RegularDatasets ==
    {FullDay(r, 0, "NO1") \o FullDay(60, 1, "NO1") \o FullDay(60, 0, "NO2") :
        r \in Resolutions}

DaySelectable == {NoDay} \cup (0..LastDay)

---------------------------------------------------------------------------
(* pandas operations used by the callbacks *)

\* Extract without the Day condition.
extract_area_only(data, d, a) ==
    SelectSeq(data, LAMBDA r : r.MapCode = a)

\* data[(data['MapCode'] == area) & (data['Day'] == day)]
Extract(data, d, a) ==
    SelectSeq(data, LAMBDA r : r.MapCode = a /\ r.Day = d)

IndexMin(s) ==
    CHOOSE t \in {s[i].DateTime : i \in DOMAIN s} :
        \A j \in DOMAIN s : t <= s[j].DateTime

IndexMax(s) ==
    CHOOSE t \in {s[i].DateTime : i \in DOMAIN s} :
        \A j \in DOMAIN s : t >= s[j].DateTime

\* sort_values('DateTime') with the default quicksort: ascending timestamps,
\* rows of equal timestamp in any order.  The set of possible results: a
\* row goes after the rows of smaller timestamp, at any free place among
\* the rows of its own timestamp.
sort_values(s) ==
    LET ties(i) == {j \in DOMAIN s : s[j].DateTime = s[i].DateTime}
        before == [i \in DOMAIN s |->
                      Cardinality({j \in DOMAIN s : s[j].DateTime < s[i].DateTime})]
        among == [i \in DOMAIN s |-> Cardinality(ties(i))]
        widest == IF s = <<>> THEN 0
                  ELSE CHOOSE n \in {among[i] : i \in DOMAIN s} :
                           \A i \in DOMAIN s : among[i] <= n
        orders == {f \in [DOMAIN s -> 1..widest] :
                      \A i \in DOMAIN s :
                          /\ f[i] <= among[i]
                          /\ \A j \in ties(i) \ {i} : f[j] # f[i]}
    IN  {[k \in DOMAIN s |-> s[CHOOSE i \in DOMAIN s : before[i] + f[i] = k]] :
            f \in orders}

is_unique(s) ==
    \A i, j \in DOMAIN s : i # j => s[i].DateTime # s[j].DateTime

\* pd.date_range(start, end, freq): start, start + freq, ... up to end.
date_range(start, end, freq) ==
    [k \in 1..((end - start) \div freq + 1) |-> start + (k - 1) * freq]

\* The target index built by plot_price from the sorted subset.
t_index(s) == date_range(IndexMin(s), IndexMax(s) + Pad, Freq)

\* Position of the last label <= t in a sorted index (0 when there is none).
searchsorted(s, t) == Cardinality({i \in DOMAIN s : s[i].DateTime <= t})

\* reindex(t_index, method = 'ffill') on a sorted frame of unique labels:
\* each new label takes the row of the last old label <= it, a missing row
\* when there is none.
reindex(s, idx) ==
    [k \in DOMAIN idx |->
        [DateTime |-> idx[k],
         Price |-> IF searchsorted(s, idx[k]) = 0 THEN NaN
                   ELSE s[searchsorted(s, idx[k])].Price]]

Returned(frame) == [raised |-> FALSE, subset |-> frame]
Raised == [raised |-> TRUE, subset |-> <<>>]

\* resample on a grid that starts at 00:00 of the first observation's day
\* and takes for each label the row of the first old label >= it.
resample_backfilled(s) ==
    IF s = <<>> THEN Raised
    ELSE IF ~is_unique(s) THEN Raised
    ELSE Returned(
            LET idx == date_range(DayColumn(IndexMin(s)) * MinutesPerDay,
                                  IndexMax(s) + Pad, Freq)
                at(t) == Cardinality({i \in DOMAIN s : s[i].DateTime < t}) + 1
            IN  [k \in DOMAIN idx |->
                    [DateTime |-> idx[k],
                     Price |-> IF at(idx[k]) > Len(s) THEN NaN
                               ELSE s[at(idx[k])].Price]])

\* The frames plot_price can hand to px.line for one sorted subset, or the
\* exception: date_range raises ValueError on the NaT bounds of an empty
\* subset, reindex raises ValueError on a non-unique index with a method.
resample(s) ==
    IF s = <<>> THEN Raised
    ELSE IF ~is_unique(s) THEN Raised
    ELSE Returned(reindex(s, t_index(s)))

plot_price(d, a, data) ==
    {resample(s) : s \in sort_values(Extract(data, d, a))}

\* The first cells of update_table: sort, reset_index, rename 'Price' to
\* 'Day-ahead price', replace DateTime by its strftime('%H:%M') string.
renamed(s) ==
    [i \in DOMAIN s |->
        [DateTime |-> Str(strftime(s[i].DateTime)), DayAheadPrice |-> s[i].Price]]

\* shift(1): each row takes the previous row's value.
shift_forward(f) ==
    [i \in DOMAIN f |-> IF i > 1 THEN f[i - 1].DateTime ELSE NaN]

\* subset['DateTime'].shift(-1): each row takes the next row's value, the
\* last row a missing value.
shift(f) ==
    [i \in DOMAIN f |-> IF i < Len(f) THEN f[i + 1].DateTime ELSE NaN]

\* subset['temp'] = ...
with_temp(f) ==
    [i \in DOMAIN f |->
        [DateTime |-> f[i].DateTime, DayAheadPrice |-> f[i].DayAheadPrice,
         temp |-> shift(f)[i]]]

\* subset.fillna(value, inplace = True): every missing cell of every column
\* of the frame becomes value.
fillna(f, value) ==
    [i \in DOMAIN f |->
        [c \in DOMAIN f[i] |-> IF isna(f[i][c]) THEN value ELSE f[i][c]]]

\* a + ' - ' + b on string cells: the two strings side by side.
concat(a, b) == IF isna(a) \/ isna(b) THEN NaN ELSE Str(a.val \o b.val)

\* subset['MTU'] = ...; subset = subset[['MTU', 'Day-ahead price']]
mtu_frame(f) ==
    [i \in DOMAIN f |->
        [MTU |-> concat(f[i].DateTime, f[i].temp),
         DayAheadPrice |-> f[i].DayAheadPrice]]

Midnight == Str(<<0, 0>>)

build_table(s) == Returned(mtu_frame(fillna(with_temp(renamed(s)), Midnight)))

update_table_result(d, a, data) ==
    {build_table(s) : s \in sort_values(Extract(data, d, a))}

\* The callbacks working on data itself: the call leaves its subset in it.
no_copy(data, sub) == sub

\* The module-level frame after a call: the callbacks work on
\* data[...].copy(), so their in-place steps leave data alone.
copy(data, sub) == data

---------------------------------------------------------------------------
(* The program *)

Init ==
    /\ \/ df \in SmallDatasets
       \/ df \in RegularDatasets
    /\ called = "none"
    /\ day = NoDay
    /\ area = "NO1"
    /\ raised = FALSE
    /\ subset = <<>>

update_plot(d, a) ==
    /\ \E out \in plot_price(d, a, df) :
            /\ raised' = out.raised
            /\ subset' = out.subset
    /\ called' = "update_plot"
    /\ day' = d
    /\ area' = a
    /\ df' = copy(df, Extract(df, d, a))

update_table(d, a) ==
    /\ \E out \in update_table_result(d, a, df) :
            /\ raised' = out.raised
            /\ subset' = out.subset
    /\ called' = "update_table"
    /\ day' = d
    /\ area' = a
    /\ df' = copy(df, Extract(df, d, a))

Next ==
    \/ \E d \in DaySelectable, a \in Areas : update_plot(d, a)
    \/ \E d \in DaySelectable, a \in Areas : update_table(d, a)

Spec == Init /\ [][Next]_vars

---------------------------------------------------------------------------
(* Vocabulary of the properties, read off df and the call's arguments *)

SlotsPerDay == MinutesPerDay \div Freq

\* The rows of df the call's (day, area) selects, by position in df.
Matching == {i \in DOMAIN df : df[i].MapCode = area /\ DayColumn(df[i].DateTime) = day}

MatchTimes == {df[i].DateTime : i \in Matching}

FirstObs == CHOOSE t \in MatchTimes : \A u \in MatchTimes : t <= u

LastObs == CHOOSE t \in MatchTimes : \A u \in MatchTimes : t >= u

DayStart == day * MinutesPerDay

\* Timestamp of the n-th matching observation in ascending timestamp order.
NthTime(n) ==
    CHOOSE t \in MatchTimes :
        /\ Cardinality({i \in Matching : df[i].DateTime < t}) < n
        /\ n <= Cardinality({i \in Matching : df[i].DateTime <= t})

\* Prices of the matching observations stamped t.
PricesAt(t) == {df[i].Price : i \in {j \in Matching : df[j].DateTime = t}}

\* Timestamp of the latest matching observation at or before t.
LatestAtOrBefore(t) ==
    CHOOSE u \in MatchTimes : u <= t /\ \A w \in MatchTimes : w <= t => w <= u

PlotBuilt == called = "update_plot" /\ ~raised
TableBuilt == called = "update_table" /\ ~raised

\* The matching observations are one per 15 minutes from 00:00 to 23:45.
FullQuarterHourDay ==
    /\ Cardinality(Matching) = SlotsPerDay
    /\ MatchTimes = {DayStart + k * Freq : k \in 0..(SlotsPerDay - 1)}

---------------------------------------------------------------------------
(* Properties *)

\* C1: every series plot_price builds for a selection that matches at least
\* one observation has exactly 96 slots, and when the only observation is at
\* 00:00 all 96 slots carry its price.
C1_SeriesHas96Slots ==
    (PlotBuilt /\ Matching # {}) =>
        /\ Len(subset) = SlotsPerDay
        /\ (MatchTimes = {DayStart} =>
                \A k \in DOMAIN subset : subset[k].Price \in PricesAt(DayStart))

\* C2: a call whose selection matches no observation (a cleared date
\* included) returns an empty frame and raises nothing, for update_plot as
\* for update_table.
C2_EmptySelectionReturnsEmpty ==
    (called # "none" /\ Matching = {}) => (~raised /\ subset = <<>>)

\* C3: for every non-empty set of matching observations, also ones sharing a
\* timestamp or off the 15-minute grid, plot_price builds a series in which
\* each slot at or after the first observation carries the price of the
\* latest matching observation at or before the slot's start.
C3_ForwardFillForAnyObservations ==
    (called = "update_plot" /\ Matching # {}) =>
        /\ ~raised
        /\ \A k \in DOMAIN subset :
               subset[k].DateTime >= FirstObs =>
                   subset[k].Price \in PricesAt(LatestAtOrBefore(subset[k].DateTime))

\* With C3: when the matching observations have pairwise distinct timestamps
\* plot_price builds the series, and each slot carries the price of the
\* latest matching observation at or before its start.
ForwardFillOnDistinctTimestamps ==
    (called = "update_plot" /\ Matching # {}
        /\ Cardinality(MatchTimes) = Cardinality(Matching)) =>
        /\ ~raised
        /\ \A k \in DOMAIN subset :
               subset[k].Price \in PricesAt(LatestAtOrBefore(subset[k].DateTime))

\* C4: in a table of N rows the MTU label of row i is "time[i] - time[i+1]"
\* for i < N, and the label of row N is "time[N] - 00:00", time[i] being the
\* HH:MM time of the i-th matching observation in ascending timestamp order.
C4_IntervalLabels ==
    TableBuilt =>
        /\ Len(subset) = Cardinality(Matching)
        /\ \A i \in DOMAIN subset :
               subset[i].MTU =
                   Str(strftime(NthTime(i)) \o
                       (IF i < Len(subset) THEN strftime(NthTime(i + 1))
                        ELSE <<0, 0>>))

C4_Witness ==
    /\ TableBuilt
    /\ Len(subset) >= 2
    /\ Cardinality(MatchTimes) >= 2
    /\ subset[1].MTU # subset[Len(subset)].MTU

\* C5: when the matching observations already are the 96 quarter-hour slots
\* 00:00 .. 23:45, the series plot_price builds has those 96 timeslots and
\* prices, no slot added or removed.
C5_ResampleFullDayUnchanged ==
    (called = "update_plot" /\ FullQuarterHourDay) =>
        /\ ~raised
        /\ Len(subset) = SlotsPerDay
        /\ \A k \in DOMAIN subset :
               /\ subset[k].DateTime = NthTime(k)
               /\ subset[k].Price \in PricesAt(NthTime(k))

\* C6: the grid of a series plot_price builds starts at 00:00 of the selected
\* day and ends at 23:45 of that day; no slot lies outside the selected day.
C6_GridSpansSelectedDay ==
    PlotBuilt =>
        /\ subset[1].DateTime = DayStart
        /\ subset[Len(subset)].DateTime = DayStart + MinutesPerDay - Freq
        /\ \A k \in DOMAIN subset : DayColumn(subset[k].DateTime) = day

\* C7: no slot of a series plot_price builds that starts strictly before the
\* first matching observation carries a price.
C7_NoBackFill ==
    PlotBuilt =>
        \A k \in DOMAIN subset :
            subset[k].DateTime < FirstObs => isna(subset[k].Price)

C7_Witness ==
    /\ PlotBuilt
    /\ FirstObs > DayStart
    /\ \E k \in DOMAIN subset : ~isna(subset[k].Price)

\* C8: no call of update_plot or update_table changes the loaded dataset
\* (same rows, same order, same values).
C8_DatasetUnchanged == [][df' = df]_vars

C8_Witness ==
    /\ TableBuilt
    /\ Len(subset) >= 2
    /\ \E i, j \in Matching : i < j /\ df[i].DateTime > df[j].DateTime

\* C9: every price of a series plot_price builds and every row of a table
\* update_table builds comes from an observation of the selected area whose
\* calendar date is the selected day, and every such observation gives the
\* table one row.
C9_OnlySelectedAreaAndDay ==
    /\ PlotBuilt =>
        \A k \in DOMAIN subset : subset[k].Price \in {df[i].Price : i \in Matching}
    /\ TableBuilt =>
        /\ Len(subset) = Cardinality(Matching)
        /\ \A k \in DOMAIN subset :
               \E i \in Matching :
                   /\ SubSeq(subset[k].MTU.val, 1, 2) = strftime(df[i].DateTime)
                   /\ isna(df[i].Price) \/ subset[k].DayAheadPrice = df[i].Price
        /\ \A i \in Matching :
               \E k \in DOMAIN subset :
                   SubSeq(subset[k].MTU.val, 1, 2) = strftime(df[i].DateTime)

C9_Witness ==
    /\ called # "none" /\ ~raised
    /\ subset # <<>>
    /\ \E i \in DOMAIN df : df[i].MapCode # area
    /\ \E i \in DOMAIN df : df[i].MapCode = area /\ DayColumn(df[i].DateTime) # day

\* C10: row i of a table carries as 'Day-ahead price' the Price of the i-th
\* matching observation in ascending timestamp order, a missing price
\* included.
C10_TablePricesAreObservationPrices ==
    TableBuilt =>
        \A i \in DOMAIN subset : subset[i].DayAheadPrice \in PricesAt(NthTime(i))

====
